---- MODULE Spec2Model ----
(***************************************************************************)
(* Smart Grid Power Consumption Analyzer (src/main.py).                    *)
(*                                                                         *)
(* The pipeline of the main driver: load_and_merge_data, then              *)
(* analyze_data.  The data directory (the JSON metadata files and the CSV  *)
(* reading files) is the input; it is drawn in Init from bounded families  *)
(* of directories and never changes afterwards.                            *)
(*                                                                         *)
(* Representation.                                                         *)
(*  - A consumption or threshold value is an integer: the number of        *)
(*    1/(2*Scale) kWh, Scale = MaxRows!, so that every mean the loader     *)
(*    computes over at most MaxRows values is again an integer.  Arithmetic*)
(*    is exact; the code's binary floating point differs from it only on   *)
(*    exact rounding ties (see Round2).                                    *)
(*  - The timestamp string "YYYY-MM-DD HH:00" is the pair of its first ten *)
(*    characters and its hour.                                             *)
(*  - household_id is carried by no statement of the code after the CSV is *)
(*    read and is left out of the rows.                                    *)
(*  - The plots of visualize_results are not modelled.                     *)
(***************************************************************************)
EXTENDS Integers, Sequences, FiniteSets, TLC

\* Rows per CSV file in the single-file family of inputs.
MaxRows == 4
\* Rows per CSV file in the two-district family of inputs.
MaxRowsSmall == 2
\* JSON files in the many-file family of inputs.
MaxJsonFiles == 2

\* np.nan: a missing consumption value (consumptions are never negative).
NaN == -1

RECURSIVE Factorial(_)
Factorial(n) == IF n <= 1 THEN 1 ELSE n * Factorial(n - 1)

Scale == Factorial(MaxRows)

\* k half-kWh as a model value.
Kwh2(k) == k * Scale

\* threshold = district.get("threshold", 1.5)
DefaultThreshold == Kwh2(3)

Dates == {"2025-09-10", "2025-09-11"}
Hours == {0, 18}
GeneratedCriticalHours == {"18:00", "19:00", "20:00", "21:00"}

\* The sort order groupby gives the key columns (strings, in code point order).
SortedCities == <<"City1", "UnknownCity">>
SortedDistricts == <<"101", "102", "Unknown">>
SortedDates == <<"2025-09-10", "2025-09-11", "UnknownDate">>

VARIABLES
    jsonDir,       \* os.listdir(json_dir): the JSON files, in listing order
    csvDir,        \* the CSV directory: file name -> content
    pc,            \* position of the driver
    jf,            \* index of the JSON file the loader is at
    city_meta,     \* the fields read from the current JSON file
    di,            \* index of the district the loader is at
    all_data,      \* load_and_merge_data: list of per-file tables
    loaded,        \* the csv_filename of each table of all_data, in order
    stdout,        \* the warnings and the error printed
    df,            \* the unified table
    group_keys,    \* the keys of df.groupby, sorted, still to be visited
    grp,           \* the locals of the last iteration of the group loop
    results,       \* analyze_data: results
    city_reports,  \* analyze_data: city_reports, as a list of <<key, list>>
    summary_csv,   \* the summary CSV files written: city -> rows
    reports_json   \* the report JSON files written: <<city, date>> -> report

vars == <<jsonDir, csvDir, pc, jf, city_meta, di, all_data, loaded, stdout, df,
          group_keys, grp, results, city_reports, summary_csv, reports_json>>

inputs == <<jsonDir, csvDir>>

(***************************************************************************)
(* Sequences.                                                              *)
(***************************************************************************)
RECURSIVE SumSeq(_)
SumSeq(s) == IF s = <<>> THEN 0 ELSE Head(s) + SumSeq(Tail(s))

RECURSIVE Concat(_)
Concat(ss) == IF ss = <<>> THEN <<>> ELSE Head(ss) \o Concat(Tail(ss))

SeqsUpTo(S, n) == UNION {[1..k -> S] : k \in 0..n}

Range(s) == {s[i] : i \in 1..Len(s)}

Max(S) == CHOOSE x \in S : \A y \in S : y <= x
Min(S) == CHOOSE x \in S : \A y \in S : x <= y

Abs(x) == IF x < 0 THEN -x ELSE x

(***************************************************************************)
(* The data directory.                                                     *)
(***************************************************************************)
\* f"{csv_dir}/district_{city}_{district_id}_{date}.csv"
CsvFilename(city, district_id, date) == <<city, district_id, date>>

\* dict.get(key, default)
Get(obj, key, default) == IF key \in obj.keys THEN obj[key] ELSE default

Timestamp(date, hour) == [date |-> date, hour |-> hour]

\* A CSV file: absent, of zero bytes, or a header and rows.
CsvAbsent == [kind |-> "absent", rows |-> <<>>]
CsvNoBytes == [kind |-> "nobytes", rows |-> <<>>]
CsvTable(rows) == [kind |-> "table", rows |-> rows]

CsvRow(ts, c) == [timestamp |-> ts, consumption_kwh |-> c]

JsonCorrupt ==
    [kind |-> "corrupt", keys |-> {}, city |-> "", date |-> "",
     districts |-> <<>>, critical_hours |-> {}]

JsonObject(keys, city, date, districts, critical_hours) ==
    [kind |-> "object", keys |-> keys, city |-> city, date |-> date,
     districts |-> districts, critical_hours |-> critical_hours]

AllKeys == {"city", "date", "districts", "critical_hours"}

District(id, threshold) ==
    [keys |-> {"district_id", "threshold"}, district_id |-> id, threshold |-> threshold]

DistrictNoThreshold(id) ==
    [keys |-> {"district_id"}, district_id |-> id, threshold |-> 0]

AllNames == {CsvFilename(c, d, t) : c \in {"City1"}, d \in {"101", "102"}, t \in Dates}

\* The CSV files a JSON listing names.
Referenced(js) ==
    {n \in AllNames : \E i \in 1..Len(js) :
        /\ js[i].kind = "object" /\ "districts" \in js[i].keys
        /\ n[1] = Get(js[i], "city", "UnknownCity")
        /\ n[3] = Get(js[i], "date", "UnknownDate")
        /\ \E k \in 1..Len(js[i].districts) :
              n[2] = Get(js[i].districts[k], "district_id", "Unknown")}

(***************************************************************************)
(* Inputs, family 1: one JSON file naming one district; the CSV file has   *)
(* up to MaxRows rows of one day, any of them missing its consumption.     *)
(***************************************************************************)
DeepRows == {CsvRow(Timestamp("2025-09-10", h), c) :
                h \in Hours, c \in {NaN, Kwh2(2), Kwh2(6)}}

DeepDistricts == {District("101", Kwh2(2)), DistrictNoThreshold("101")}

InitDeep ==
    /\ \E d \in DeepDistricts, ch \in {{}, GeneratedCriticalHours} :
          jsonDir = <<JsonObject(AllKeys, "City1", "2025-09-10", <<d>>, ch)>>
    /\ \E rows \in SeqsUpTo(DeepRows, MaxRows) :
          csvDir = [n \in AllNames |->
                       IF n = CsvFilename("City1", "101", "2025-09-10")
                       THEN CsvTable(rows) ELSE CsvAbsent]

(***************************************************************************)
(* Inputs, family 2: one JSON file naming two districts, each CSV file     *)
(* with up to MaxRowsSmall rows.                                           *)
(***************************************************************************)
SmallRows == {CsvRow(Timestamp("2025-09-10", h), c) :
                 h \in Hours, c \in {Kwh2(2), Kwh2(6)}}

InitTwoDistricts ==
    /\ jsonDir = <<JsonObject(AllKeys, "City1", "2025-09-10",
                              <<District("101", Kwh2(4)), District("102", Kwh2(4))>>,
                              GeneratedCriticalHours)>>
    /\ \E r1, r2 \in SeqsUpTo(SmallRows, MaxRowsSmall) :
          csvDir = [n \in AllNames |->
                       CASE n = CsvFilename("City1", "101", "2025-09-10") -> CsvTable(r1)
                         [] n = CsvFilename("City1", "102", "2025-09-10") -> CsvTable(r2)
                         [] OTHER -> CsvAbsent]

(***************************************************************************)
(* Inputs, family 3: up to MaxJsonFiles JSON files, unparseable, empty     *)
(* objects or metadata of either day; every CSV file they name is absent,  *)
(* of zero bytes, a bare header, or one row stamped with either day.       *)
(***************************************************************************)
ManyJson ==
    {JsonCorrupt, JsonObject({}, "", "", <<>>, {})} \cup
    {JsonObject(AllKeys, "City1", t, ds, GeneratedCriticalHours) :
        t \in Dates,
        ds \in {<<District("101", Kwh2(4))>>,
                <<District("101", Kwh2(4)), District("102", Kwh2(4))>>}}

ManyCsv ==
    {CsvAbsent, CsvNoBytes, CsvTable(<<>>)} \cup
    {CsvTable(<<CsvRow(Timestamp(t, 18), Kwh2(6))>>) : t \in Dates}

InitMany ==
    /\ jsonDir \in SeqsUpTo(ManyJson, MaxJsonFiles)
    /\ csvDir \in [AllNames -> ManyCsv]
    /\ \A n \in AllNames \ Referenced(jsonDir) : csvDir[n] = CsvAbsent

NoMeta == [city |-> "", date |-> "", critical_hours |-> {}, districts |-> <<>>]
NoGroup ==
    [key |-> <<"", "", "">>, violations |-> 0, total |-> 0, peak_hour |-> 0,
     peak_hour_str |-> "", critical_hours |-> {}, peak_hour_risk |-> 0,
     violation_ratio |-> <<0, 1>>, risk_score |-> 0, risk_level |-> ""]

Init ==
    /\ InitDeep \/ InitTwoDistricts \/ InitMany
    /\ pc = "load_json"
    /\ jf = 1
    /\ city_meta = NoMeta
    /\ di = 1
    /\ all_data = <<>>
    /\ loaded = <<>>
    /\ stdout = <<>>
    /\ df = <<>>
    /\ group_keys = <<>>
    /\ grp = NoGroup
    /\ results = <<>>
    /\ city_reports = <<>>
    /\ summary_csv = <<>>
    /\ reports_json = <<>>

(***************************************************************************)
(* load_and_merge_data.                                                    *)
(***************************************************************************)
Column(rows) == [i \in 1..Len(rows) |-> rows[i].consumption_kwh]

NotNa(vals) == SelectSeq(vals, LAMBDA v : v # NaN)

\* Mean with the missing values counted in the divisor.
MeanOverAllRows(vals) ==
    IF NotNa(vals) = <<>> THEN NaN ELSE SumSeq(NotNa(vals)) \div Len(vals)

\* Series.mean(): the mean of the values that are not missing, NaN if there
\* are none.
Mean(vals) ==
    IF NotNa(vals) = <<>> THEN NaN ELSE SumSeq(NotNa(vals)) \div Len(NotNa(vals))

\* if df["consumption_kwh"].isna().sum() > 0:
\*     df["consumption_kwh"].fillna(df["consumption_kwh"].mean(), inplace=True)
\* (fillna with a NaN value leaves the column as it is; the in-place fill on
\* the column is taken to reach df, as it does without copy-on-write).
FillNa(rows) ==
    IF \E i \in 1..Len(rows) : rows[i].consumption_kwh = NaN
    THEN [i \in 1..Len(rows) |->
             IF rows[i].consumption_kwh = NaN
             THEN [rows[i] EXCEPT !.consumption_kwh = Mean(Column(rows))]
             ELSE rows[i]]
    ELSE rows

\* The threshold of the JSON entry never read.
DistrictThresholdIgnored(district) == DefaultThreshold

DistrictThreshold(district) == Get(district, "threshold", DefaultThreshold)

\* df["city"] = city; df["district_id"] = district_id; df["threshold"] = threshold
\* df["critical_hours"] = [critical_hours] * len(df)
AttachMeta(rows, city, district_id, threshold, critical_hours) ==
    [i \in 1..Len(rows) |->
        [timestamp |-> rows[i].timestamp,
         consumption_kwh |-> rows[i].consumption_kwh,
         city |-> city,
         district_id |-> district_id,
         threshold |-> threshold,
         critical_hours |-> critical_hours]]

\* The district the loader is at and the CSV file it names.
CurDistrict == city_meta.districts[di]
CurCsv ==
    CsvFilename(city_meta.city, Get(CurDistrict, "district_id", "Unknown"), city_meta.date)

\* os.path.exists(csv_filename); a name outside the directory does not exist.
CsvExists(name) == name \in DOMAIN csvDir /\ csvDir[name].kind # "absent"

\* `break` where the loop has `continue`.
BreakDistricts(i, n) == n + 1

\* `continue` after the warning of a missing CSV file.
AfterMissingCsv(i, n) == i + 1

\* `continue` of the district loop.
NextDistrict(i, n) == i + 1

loaderVars == <<jf, city_meta, di, all_data, loaded>>
analysisVars ==
    <<df, group_keys, grp, results, city_reports, summary_csv, reports_json>>

\* json.load raises JSONDecodeError: the file is skipped.
SkipCorruptJson ==
    /\ pc = "load_json"
    /\ jf <= Len(jsonDir)
    /\ jsonDir[jf].kind = "corrupt"
    /\ stdout' = Append(stdout, <<"Skipping corrupted JSON", jf>>)
    /\ jf' = jf + 1
    /\ UNCHANGED <<inputs, pc, city_meta, di, all_data, loaded, analysisVars>>

\* city, date, critical_hours and the districts of the JSON file.
OpenJson ==
    /\ pc = "load_json"
    /\ jf <= Len(jsonDir)
    /\ jsonDir[jf].kind = "object"
    /\ city_meta' = [city |-> Get(jsonDir[jf], "city", "UnknownCity"),
                     date |-> Get(jsonDir[jf], "date", "UnknownDate"),
                     critical_hours |-> Get(jsonDir[jf], "critical_hours", {}),
                     districts |-> Get(jsonDir[jf], "districts", <<>>)]
    /\ di' = 1
    /\ pc' = "load_district"
    /\ UNCHANGED <<inputs, jf, all_data, loaded, stdout, analysisVars>>

\* The CSV file of the district does not exist.
SkipMissingCsv ==
    /\ pc = "load_district"
    /\ di <= Len(city_meta.districts)
    /\ ~CsvExists(CurCsv)
    /\ stdout' = Append(stdout, <<"Missing CSV", CurCsv>>)
    /\ di' = AfterMissingCsv(di, Len(city_meta.districts))
    /\ UNCHANGED <<inputs, pc, jf, city_meta, all_data, loaded, analysisVars>>

\* pd.read_csv raises EmptyDataError: the file has no columns to parse.
SkipEmptyCsv ==
    /\ pc = "load_district"
    /\ di <= Len(city_meta.districts)
    /\ CsvExists(CurCsv)
    /\ csvDir[CurCsv].kind = "nobytes"
    /\ stdout' = Append(stdout, <<"Empty CSV skipped", CurCsv>>)
    /\ di' = NextDistrict(di, Len(city_meta.districts))
    /\ UNCHANGED <<inputs, pc, jf, city_meta, all_data, loaded, analysisVars>>

\* The CSV file is read, imputed, tagged and appended to all_data.
MergeCsv ==
    /\ pc = "load_district"
    /\ di <= Len(city_meta.districts)
    /\ CsvExists(CurCsv)
    /\ csvDir[CurCsv].kind = "table"
    /\ all_data' = Append(all_data,
                          AttachMeta(FillNa(csvDir[CurCsv].rows),
                                     city_meta.city,
                                     Get(CurDistrict, "district_id", "Unknown"),
                                     DistrictThreshold(CurDistrict),
                                     city_meta.critical_hours))
    /\ loaded' = Append(loaded, CurCsv)
    /\ di' = NextDistrict(di, Len(city_meta.districts))
    /\ UNCHANGED <<inputs, pc, jf, city_meta, stdout, analysisVars>>

\* The district loop of the JSON file is over.
JsonDone ==
    /\ pc = "load_district"
    /\ di > Len(city_meta.districts)
    /\ jf' = jf + 1
    /\ pc' = "load_json"
    /\ UNCHANGED <<inputs, city_meta, di, all_data, loaded, stdout, analysisVars>>

\* if not all_data: raise ValueError(...); the driver prints it and ends.
RaiseNoData ==
    /\ pc = "load_json"
    /\ jf > Len(jsonDir)
    /\ all_data = <<>>
    /\ stdout' = Append(stdout, <<"ERROR: No data found", 0>>)
    /\ pc' = "error"
    /\ UNCHANGED <<inputs, loaderVars, analysisVars>>

\* return pd.concat(all_data, ignore_index=True)
ReturnMerged ==
    /\ pc = "load_json"
    /\ jf > Len(jsonDir)
    /\ all_data # <<>>
    /\ df' = Concat(all_data)
    /\ pc' = "analyze"
    /\ UNCHANGED <<inputs, loaderVars, stdout, group_keys, grp, results,
                   city_reports, summary_csv, reports_json>>

Load ==
    \/ SkipCorruptJson
    \/ OpenJson
    \/ SkipMissingCsv
    \/ SkipEmptyCsv
    \/ MergeCsv
    \/ JsonDone
    \/ RaiseNoData
    \/ ReturnMerged

(***************************************************************************)
(* analyze_data.                                                           *)
(***************************************************************************)
\* pd.to_datetime(df["timestamp"]).dt.hour
HourOf(ts) == ts.hour

\* df["timestamp"].str[:10]
DatePrefix(ts) == ts.date

\* >= where the code has >.
ViolationOrEqual(r) == r.consumption_kwh # NaN /\ r.consumption_kwh >= r.threshold

\* df["consumption_kwh"] > df["threshold"]; a comparison with NaN is False.
Violation(r) == r.consumption_kwh # NaN /\ r.consumption_kwh > r.threshold

\* f"{peak_hour:02d}:00"
Digits == <<"0", "1", "2", "3", "4", "5", "6", "7", "8", "9">>
HourStr(h) == Digits[(h \div 10) + 1] \o Digits[(h % 10) + 1] \o ":00"

\* df["hour"] = ...; df["violation"] = ...
AddColumns(t) ==
    [i \in 1..Len(t) |->
        [timestamp |-> t[i].timestamp,
         consumption_kwh |-> t[i].consumption_kwh,
         city |-> t[i].city,
         district_id |-> t[i].district_id,
         threshold |-> t[i].threshold,
         critical_hours |-> t[i].critical_hours,
         hour |-> HourOf(t[i].timestamp),
         violation |-> Violation(t[i])]]

GroupKey(r) == <<r.city, r.district_id, DatePrefix(r.timestamp)>>

\* Every key the inputs can give, in groupby's sorted order.
AllSortedKeys ==
    [n \in 1..(Len(SortedCities) * Len(SortedDistricts) * Len(SortedDates)) |->
        <<SortedCities[((n - 1) \div (Len(SortedDistricts) * Len(SortedDates))) + 1],
          SortedDistricts[(((n - 1) \div Len(SortedDates)) % Len(SortedDistricts)) + 1],
          SortedDates[((n - 1) % Len(SortedDates)) + 1]>>]

\* The keys of df.groupby(["city", "district_id", date]), sorted.
GroupKeys(t) ==
    SelectSeq(AllSortedKeys, LAMBDA k : \E i \in 1..Len(t) : GroupKey(t[i]) = k)

GroupRows(t, k) == SelectSeq(t, LAMBDA r : GroupKey(r) = k)

\* group.groupby("hour")["consumption_kwh"].sum(): missing values are skipped.
HourSum(g, h) == SumSeq(NotNa(Column(SelectSeq(g, LAMBDA r : r.hour = h))))

GroupHours(g) == {g[i].hour : i \in 1..Len(g)}

\* The last hour of the largest sum.
PeakHourLast(g) ==
    Max({h \in GroupHours(g) : \A h2 \in GroupHours(g) : HourSum(g, h2) <= HourSum(g, h)})

\* .idxmax() over the hours in ascending order: the first hour of the largest sum.
PeakHour(g) ==
    Min({h \in GroupHours(g) : \A h2 \in GroupHours(g) : HourSum(g, h2) <= HourSum(g, h)})

\* 1 if peak_hour_str in critical_hours else 0
PeakHourRisk(peak_hour_str, critical_hours) ==
    IF peak_hour_str \in critical_hours THEN 1 ELSE 0

\* group["violation"].sum()
Violations(g) == Len(SelectSeq(g, LAMBDA r : r.violation))

\* round(x, 2) of x = num/den hundredths, to the nearest hundredth.  num/den is
\* exactly between two hundredths only if den is a multiple of 8, where the
\* binary value of x decides; this operator then takes the even one.
Round2(num, den) ==
    LET q == num \div den
        r == num % den
    IN  IF 2 * r < den THEN q
        ELSE IF 2 * r > den THEN q + 1
        ELSE IF q % 2 = 0 THEN q ELSE q + 1

\* > 0.25 where the code has >= 0.25.
RiskEligibleStrict(v, t, p) == 4 * v > t \/ p = 1

\* violation_ratio >= 0.25 or peak_hour_risk == 1, for violation_ratio = v/t
RiskEligible(v, t, p) == 4 * v >= t \/ p = 1

\* round((0.6 * violation_ratio) + (0.4 * peak_hour_risk), 2), in hundredths
RiskScore(v, t, p) ==
    IF RiskEligible(v, t, p) THEN Round2(60 * v + 40 * p * t, t) ELSE 0

\* < 0.60 where the code has <= 0.60.
RiskLevelStrict(risk_score) ==
    IF risk_score = 0 THEN "NO RISK"
    ELSE IF risk_score <= 30 THEN "LOW"
    ELSE IF risk_score < 60 THEN "MEDIUM"
    ELSE "HIGH"

RiskLevel(risk_score) ==
    IF risk_score = 0 THEN "NO RISK"
    ELSE IF risk_score <= 30 THEN "LOW"
    ELSE IF risk_score <= 60 THEN "MEDIUM"
    ELSE "HIGH"

\* mean, min and max of the group's consumption (missing values skipped); the
\* mean is the pair <<sum, count>>.
GroupAvg(g) ==
    IF NotNa(Column(g)) = <<>> THEN <<NaN, 1>>
    ELSE <<SumSeq(NotNa(Column(g))), Len(NotNa(Column(g)))>>
GroupMin(g) == IF NotNa(Column(g)) = <<>> THEN NaN ELSE Min(Range(NotNa(Column(g))))
GroupMax(g) == IF NotNa(Column(g)) = <<>> THEN NaN ELSE Max(Range(NotNa(Column(g))))

\* The locals of one iteration of the group loop.
GroupLocals(k, g) ==
    LET peak_hour == PeakHour(g)
        peak_hour_str == HourStr(peak_hour)
        critical_hours == g[1].critical_hours
        peak_hour_risk == PeakHourRisk(peak_hour_str, critical_hours)
        violations == Violations(g)
        total == Len(g)
        risk_score == RiskScore(violations, total, peak_hour_risk)
    IN  [key |-> k,
         violations |-> violations,
         total |-> total,
         peak_hour |-> peak_hour,
         peak_hour_str |-> peak_hour_str,
         critical_hours |-> critical_hours,
         peak_hour_risk |-> peak_hour_risk,
         violation_ratio |-> <<violations, total>>,
         risk_score |-> risk_score,
         risk_level |-> RiskLevel(risk_score)]

\* A row of results.
ResultRow(l, g) ==
    [city |-> l.key[1], district_id |-> l.key[2], date |-> l.key[3],
     avg_consumption |-> GroupAvg(g),
     min_consumption |-> GroupMin(g),
     max_consumption |-> GroupMax(g),
     peak_hour |-> l.peak_hour_str,
     violations |-> l.violations,
     violation_ratio |-> l.violation_ratio,
     risk_score |-> l.risk_score,
     risk_level |-> l.risk_level]

\* An entry of city_reports; the percentage f"{violation_ratio * 100:.1f}%" is
\* its number of tenths of a percent.
AlertEntry(l) ==
    [district_id |-> l.key[2],
     pct_tenths |-> Round2(1000 * l.violations, l.total),
     risk_score |-> l.risk_score,
     risk_level |-> l.risk_level]

\* city_reports.setdefault(key, []).append(entry)
SetDefaultAppend(d, key, entry) ==
    IF \E i \in 1..Len(d) : d[i][1] = key
    THEN [i \in 1..Len(d) |->
             IF d[i][1] = key THEN <<key, Append(d[i][2], entry)>> ELSE d[i]]
    ELSE Append(d, <<key, <<entry>>>>)

CountLevel(districts, level) ==
    Len(SelectSeq(districts, LAMBDA d : d.risk_level = level))

\* >= 0 where the code has > 0.
CriticalAlertsAll(districts) == SelectSeq(districts, LAMBDA d : d.risk_score >= 0)

\* [d for d in districts if d["risk_score"] > 0]
CriticalAlerts(districts) == SelectSeq(districts, LAMBDA d : d.risk_score > 0)

Report(key, districts) ==
    [city |-> key[1],
     date |-> key[2],
     total_districts |-> Len(districts),
     high_risk_districts |-> CountLevel(districts, "HIGH"),
     medium_risk_districts |-> CountLevel(districts, "MEDIUM"),
     low_risk_districts |-> CountLevel(districts, "LOW"),
     critical_alerts |-> CriticalAlerts(districts)]

\* The hour and violation columns, and the groups of the loop.
AnalyzePrepare ==
    /\ pc = "analyze"
    /\ df' = AddColumns(df)
    /\ group_keys' = GroupKeys(df)
    /\ pc' = "group"
    /\ UNCHANGED <<inputs, loaderVars, stdout, grp, results, city_reports,
                   summary_csv, reports_json>>

\* One iteration of the loop over the (city, district_id, date) groups.
AnalyzeGroup ==
    /\ pc = "group"
    /\ group_keys # <<>>
    /\ LET k == Head(group_keys)
           g == GroupRows(df, k)
           l == GroupLocals(k, g)
       IN  /\ grp' = l
           /\ results' = Append(results, ResultRow(l, g))
           /\ city_reports' = SetDefaultAppend(city_reports, <<k[1], k[3]>>, AlertEntry(l))
    /\ group_keys' = Tail(group_keys)
    /\ UNCHANGED <<inputs, loaderVars, stdout, pc, df, summary_csv, reports_json>>

\* The summary CSV of every city and the report JSON of every (city, date).
WriteReports ==
    /\ pc = "group"
    /\ group_keys = <<>>
    /\ summary_csv' =
          [c \in {results[i].city : i \in 1..Len(results)} |->
              SelectSeq(results, LAMBDA r : r.city = c)]
    /\ reports_json' =
          [key \in {city_reports[i][1] : i \in 1..Len(city_reports)} |->
              Report(key, (CHOOSE e \in Range(city_reports) : e[1] = key)[2])]
    /\ pc' = "done"
    /\ UNCHANGED <<inputs, loaderVars, stdout, df, group_keys, grp, results,
                   city_reports>>

Analyze ==
    \/ AnalyzePrepare
    \/ AnalyzeGroup
    \/ WriteReports

Next == Load \/ Analyze

Spec == Init /\ [][Next]_vars

(***************************************************************************)
(* Properties.                                                             *)
(***************************************************************************)
LoadReturned == pc \in {"analyze", "group", "done"}
LoadEnded == LoadReturned \/ pc = "error"

\* The rows of table t in the group of key k, by index.
GroupIndex(t, k) ==
    {i \in 1..Len(t) : <<t[i].city, t[i].district_id, t[i].timestamp.date>> = k}

\* The sum of the consumption of the rows I of t that have one.
RECURSIVE SumCons(_, _)
SumCons(t, I) ==
    IF I = {} THEN 0
    ELSE LET i == CHOOSE x \in I : TRUE
         IN  (IF t[i].consumption_kwh = NaN THEN 0 ELSE t[i].consumption_kwh)
             + SumCons(t, I \ {i})

\* A group has been analysed: grp holds its locals, results its row.
Analysed == grp # NoGroup

\* C1: the risk score of a group is 0 when violation_ratio < 0.25 and
\* peak_hour_risk = 0; otherwise (violation_ratio >= 0.25, 0.25 included, or
\* peak_hour_risk = 1) it is 0.6 * violation_ratio + 0.4 * peak_hour_risk
\* rounded to the nearest hundredth.
C1_RiskScoreRule ==
    Analysed =>
        LET v == grp.violations
            t == grp.total
            p == grp.peak_hour_risk
        IN  /\ results[Len(results)].risk_score = grp.risk_score
            /\ (4 * v < t /\ p = 0) => grp.risk_score = 0
            /\ (4 * v >= t \/ p = 1) =>
                  2 * Abs(grp.risk_score * t - (60 * v + 40 * p * t)) <= t

\* A group with violation_ratio exactly 0.25 and no peak-hour risk scored 0.15.
C1_Witness ==
    /\ Analysed
    /\ 4 * grp.violations = grp.total
    /\ grp.peak_hour_risk = 0
    /\ grp.risk_score = 15

\* C2: the risk level of every summary is decided by its risk score:
\* NO RISK iff 0, LOW iff in (0, 0.30], MEDIUM iff in (0.30, 0.60], HIGH iff
\* above 0.60.
C2_RiskLevelOfScore ==
    \A i \in 1..Len(results) :
        LET s == results[i].risk_score
            l == results[i].risk_level
        IN  /\ l \in {"NO RISK", "LOW", "MEDIUM", "HIGH"}
            /\ l = "NO RISK" <=> s = 0
            /\ l = "LOW" <=> (0 < s /\ s <= 30)
            /\ l = "MEDIUM" <=> (30 < s /\ s <= 60)
            /\ l = "HIGH" <=> s > 60

\* A summary with risk score exactly 0.60 is MEDIUM.
C2_Witness ==
    \E i \in 1..Len(results) :
        results[i].risk_score = 60 /\ results[i].risk_level = "MEDIUM"

\* C3: the violations of a group are its rows whose consumption is strictly
\* above the row's threshold, and violation_ratio is violations over the
\* number of rows of the group, between 0 and 1.
C3_ViolationsCount ==
    Analysed =>
        LET I == GroupIndex(df, grp.key)
            V == {i \in I : /\ df[i].consumption_kwh # NaN
                            /\ df[i].consumption_kwh > df[i].threshold}
        IN  /\ grp.violations = Cardinality(V)
            /\ grp.total = Cardinality(I)
            /\ grp.total > 0
            /\ grp.violation_ratio = <<grp.violations, grp.total>>
            /\ 0 <= grp.violations /\ grp.violations <= grp.total
            /\ results[Len(results)].violations = grp.violations
            /\ results[Len(results)].violation_ratio = grp.violation_ratio

\* A group with a row at its threshold (not counted) and a row above it.
C3_Witness ==
    /\ Analysed
    /\ \E i \in GroupIndex(df, grp.key) : df[i].consumption_kwh = df[i].threshold
    /\ \E i \in GroupIndex(df, grp.key) :
          df[i].consumption_kwh # NaN /\ df[i].consumption_kwh > df[i].threshold
    /\ grp.violations < grp.total

\* "HH:00" of the hours of the inputs.
TwoDigitHour(h) == CASE h = 0 -> "00:00" [] h = 18 -> "18:00"

\* C4: the peak hour of a group is an hour of the largest summed consumption,
\* the smallest such hour on a tie, and peak_hour_risk is 1 exactly when its
\* "HH:00" string is in the group's critical hours.
C4_PeakHour ==
    Analysed =>
        LET I == GroupIndex(df, grp.key)
            H == {df[i].timestamp.hour : i \in I}
            Total(h) == SumCons(df, {i \in I : df[i].timestamp.hour = h})
        IN  /\ grp.peak_hour \in H
            /\ \A h \in H : Total(h) <= Total(grp.peak_hour)
            /\ \A h \in H : Total(h) = Total(grp.peak_hour) => grp.peak_hour <= h
            /\ results[Len(results)].peak_hour = TwoDigitHour(grp.peak_hour)
            /\ \A i \in I :
                  grp.peak_hour_risk = 1 <=>
                      TwoDigitHour(grp.peak_hour) \in df[i].critical_hours
            /\ grp.peak_hour_risk \in {0, 1}

\* Hours 0 and 18 tie for a positive sum: the peak hour is 0, and 18:00 being
\* critical does not make the group a peak-hour risk.
C4_Witness ==
    /\ Analysed
    /\ LET I == GroupIndex(df, grp.key)
       IN  /\ SumCons(df, {i \in I : df[i].timestamp.hour = 0})
                = SumCons(df, {i \in I : df[i].timestamp.hour = 18})
           /\ SumCons(df, {i \in I : df[i].timestamp.hour = 0}) > 0
           /\ \E i \in I : df[i].timestamp.hour = 18
    /\ grp.peak_hour = 0
    /\ "18:00" \in grp.critical_hours
    /\ grp.peak_hour_risk = 0

\* The summaries of a (city, date), by index in results.
SummariesOf(key) ==
    {i \in 1..Len(results) : <<results[i].city, results[i].date>> = key}

\* C5: every report written counts the summaries of its (city, date) in total
\* and by HIGH, MEDIUM and LOW, and its critical_alerts are exactly the
\* districts of positive risk score, each once: as many as high + medium + low.
C5_ReportRollUp ==
    pc = "done" =>
        /\ DOMAIN reports_json =
              {<<results[i].city, results[i].date>> : i \in 1..Len(results)}
        /\ \A key \in DOMAIN reports_json :
              LET r == reports_json[key]
                  S == SummariesOf(key)
                  a == r.critical_alerts
              IN  /\ r.total_districts = Cardinality(S)
                  /\ r.high_risk_districts =
                        Cardinality({i \in S : results[i].risk_level = "HIGH"})
                  /\ r.medium_risk_districts =
                        Cardinality({i \in S : results[i].risk_level = "MEDIUM"})
                  /\ r.low_risk_districts =
                        Cardinality({i \in S : results[i].risk_level = "LOW"})
                  /\ Len(a) = Cardinality({i \in S : results[i].risk_score > 0})
                  /\ \A i \in S : results[i].risk_score > 0 =>
                        \E j \in 1..Len(a) :
                            /\ a[j].district_id = results[i].district_id
                            /\ a[j].risk_score = results[i].risk_score
                            /\ a[j].risk_level = results[i].risk_level
                  /\ \A j \in 1..Len(a) : a[j].risk_score > 0
                  /\ \A j, k \in 1..Len(a) :
                        a[j].district_id = a[k].district_id => j = k
                  /\ Len(a) = r.high_risk_districts + r.medium_risk_districts
                                + r.low_risk_districts

\* A report of two districts, one LOW and alerted, one of no risk and not.
C5_Witness ==
    /\ pc = "done"
    /\ \E key \in DOMAIN reports_json :
          /\ reports_json[key].total_districts = 2
          /\ reports_json[key].low_risk_districts = 1
          /\ Len(reports_json[key].critical_alerts) = 1
          /\ \E i \in SummariesOf(key) : results[i].risk_level = "NO RISK"

\* C6, as claimed: after the load no row of the unified table has a missing
\* consumption, for every input.
C6_NoMissingAfterLoad ==
    LoadReturned => \A i \in 1..Len(df) : df[i].consumption_kwh # NaN

\* C6, amended: in every merged table, a value the file has is unchanged and a
\* value the file misses is the mean of the values the file has; a file that
\* has none is merged with all its values still missing.
C6_ImputedUnlessAllMissing ==
    /\ Len(loaded) = Len(all_data)
    /\ \A k \in 1..Len(all_data) :
          LET src == csvDir[loaded[k]].rows
              t == all_data[k]
              P == {i \in 1..Len(src) : src[i].consumption_kwh # NaN}
          IN  /\ Len(t) = Len(src)
              /\ \A i \in 1..Len(src) :
                    IF i \in P
                    THEN t[i].consumption_kwh = src[i].consumption_kwh
                    ELSE IF P = {}
                    THEN t[i].consumption_kwh = NaN
                    ELSE /\ t[i].consumption_kwh # NaN
                         /\ t[i].consumption_kwh * Cardinality(P) = SumCons(src, P)

\* The file [1.0, missing, 3.0] merged as [1.0, 2.0, 3.0].
C6_Witness ==
    \E k \in 1..Len(all_data) :
        /\ Column(csvDir[loaded[k]].rows) = <<Kwh2(2), NaN, Kwh2(6)>>
        /\ Column(all_data[k]) = <<Kwh2(2), Kwh2(4), Kwh2(6)>>

\* C7: the load fails with the no-data error whenever no table was merged,
\* and the unified table it returns otherwise is not empty.
C7_NoDataOrNonEmpty ==
    /\ pc = "error" => all_data = <<>>
    /\ LoadReturned => (all_data # <<>> /\ df # <<>>)

\* The metadata entries of the JSON listing that are parsed, as <<file, entry>>.
Declared ==
    UNION {{<<j, e>> : e \in 1..Len(jsonDir[j].districts)} :
              j \in {n \in 1..Len(jsonDir) :
                        jsonDir[n].kind = "object" /\ "districts" \in jsonDir[n].keys}}

DeclaredName(j, e) ==
    <<IF "city" \in jsonDir[j].keys THEN jsonDir[j].city ELSE "UnknownCity",
      IF "district_id" \in jsonDir[j].districts[e].keys
      THEN jsonDir[j].districts[e].district_id ELSE "Unknown",
      IF "date" \in jsonDir[j].keys THEN jsonDir[j].date ELSE "UnknownDate">>

\* The CSV files with a header that the first n JSON files name, in order.
RECURSIVE ReadableUpTo(_)
ReadableUpTo(n) ==
    IF n = 0 THEN <<>>
    ELSE ReadableUpTo(n - 1) \o
         (IF jsonDir[n].kind = "object" /\ "districts" \in jsonDir[n].keys
          THEN SelectSeq([e \in 1..Len(jsonDir[n].districts) |-> DeclaredName(n, e)],
                         LAMBDA name : csvDir[name].kind = "table")
          ELSE <<>>)

C9_ZeroRowFileSkipped ==
    /\ Len(all_data) = Len(loaded)
    /\ \A k \in 1..Len(loaded) :
          csvDir[loaded[k]].rows # <<>> /\ all_data[k] # <<>>

\* The (city, district_id, date) triples the parsed metadata declares.
DeclaredTriples == {DeclaredName(d[1], d[2]) : d \in Declared}

====
